---------------------------- MODULE Spec2Model ----------------------------
(***************************************************************************)
(* protoframe: a Qt front end that drives ffmpeg.                          *)
(*                                                                         *)
(* Two parts of the repository are modelled.                               *)
(*                                                                         *)
(*  * ffmpeg.py: class FFmpeg, a command model (inputs, arguments,         *)
(*    outputs) with its linearisation and synchronous run().  It is        *)
(*    exercised by SpecFFmpeg.                                             *)
(*                                                                         *)
(*  * main.py: FFmpegConfig, the GO/STOP button and ProtoframeWindow,      *)
(*    which drive an event-emitting FFmpeg object (on / execute /          *)
(*    terminate, the flags _executed and _terminated, the lists            *)
(*    _input_files, _output_files, _global_options).  The implementation   *)
(*    of that object is not among the sources; main.py only calls it.  Its *)
(*    behaviour is taken from the specification (sections 3, 4.1, 4.3,     *)
(*    4.4, 5 and 9), and those definitions are marked as such.  It is      *)
(*    exercised by Spec, and by FairSpec for liveness.                     *)
(*                                                                         *)
(* Paths are modelled by their final component, split as pathlib does into *)
(* stem and suffix; the directory part plays no role in any operation      *)
(* modelled here.                                                          *)
(***************************************************************************)
EXTENDS Integers, Sequences, FiniteSets, TLC

\* ------------------------------------------------------------------ bounds

\* FFmpeg.inputs / arguments / outputs hold at most this many entries.
MaxInputs == 2
MaxArgs == 2
MaxOutputs == 2
\* Runs (spawn attempts) of the window's FFmpeg object.
MaxRuns == 2
\* Diagnostic lines the child process writes in one run.
MaxLines == 1
\* _execute_ffmpeg coroutines scheduled and not yet started.
MaxPending == 1

\* ------------------------------------------------------------- data values

\* Python's None, the "no value" sentinel of an option.
None == "None"

\* self.exe, the executable; 'ffmpeg' is the default of main().
exe == "ffmpeg"

\* pathlib.Path: final component as stem and suffix.
Path(stem, suffix) == [stem |-> stem, suffix |-> suffix]

\* Path(): the empty path, FFmpegConfig's initial input and output.
EmptyPath == Path("", "")

\* str(path); str(Path()) is ".".
Str(p) == IF p = EmptyPath THEN "." ELSE p.stem \o p.suffix

\* Files the user may pick or drop as input.
InputPaths == {Path("a", ".mp4"), Path("b", "")}

\* Names the user may type into the output box (name field + extension box).
OutputNames == {Path("o", ".gif")}

\* Presets the user may pick: 'Default settings' and 'Do nothing (copy)'.
PresetIndexes == {0, 1}

\* File names given to FFmpeg.input / FFmpeg.output of ffmpeg.py.
FileNames == {"in.mp4", "out.mp4"}

\* Option names and values given to FFmpeg.arg of ffmpeg.py.
ArgTypes == {"-y", "-c"}
ArgValues == {"copy", None}

\* Lines the child process may write to its diagnostic stream.
Lines == {"frame=1", "warning"}

\* Exit codes of the child process.
ExitCodes == {0, 1}

\* The returncode of a process that has not exited (Python's None).
NoReturncode == -1

VARIABLES
    \* ---- ffmpeg.py, class FFmpeg
    inputs,         \* self.inputs
    arguments,      \* self.arguments, a list of (arg_type, value)
    outputs,        \* self.outputs
    command,        \* the command list run() last built
    runResult,      \* how run() last ended for its caller
    \* ---- main.py
    ff_conf,        \* FFmpegConfig: input, globals, output_options, output
    in_progress,    \* FFmpegGoStopButton.in_progress
    available,      \* FFmpegGoStopButton.available
    currentIndex,   \* combobox.currentIndex() of the initial preset dropdown
    console,        \* FFmpegConsoleDisplay: the lines added in the current run
    pendingExec,    \* _execute_ffmpeg coroutines scheduled by asyncSlot
    ffmpeg,         \* the window's FFmpeg object
    manual_reset,   \* history: in the current run a handler had to clear a run flag
    \* ---- the child process and the run
    proc,           \* "none" | "running" | "exited"
    returncode,     \* exit code of the current process, once it has exited
    pipe,           \* lines written by the process and not yet read
    emitted,        \* history: every line the current process has written
    signals,        \* history: termination signals sent to the current process
    terminated_from, \* history: the state the latest terminate() was called in
    argv,           \* the argument vector the current run was spawned with
    runs,           \* history: runs started so far (spawn attempts)
    log             \* history: the events published in the current run, in order

ffmpegVars == <<inputs, arguments, outputs, command, runResult>>
windowVars == <<ff_conf, in_progress, available, currentIndex, console, pendingExec, ffmpeg,
                manual_reset>>
runVars == <<proc, returncode, pipe, emitted, signals, terminated_from, argv, runs, log>>
vars == <<ffmpegVars, windowVars, runVars>>

\* ------------------------------------------------- ffmpeg.py: class FFmpeg

\* FFmpeg.__init__
FFmpegInit ==
    /\ inputs = <<>>
    /\ arguments = <<>>
    /\ outputs = <<>>
    /\ command = <<>>
    /\ runResult = "not run"

\* FFmpeg.input
input(filepath) ==
    /\ Len(inputs) < MaxInputs
    /\ inputs' = Append(inputs, filepath)
    /\ UNCHANGED <<arguments, outputs, command, runResult>>

\* FFmpeg.arg
arg(arg_type, value) ==
    /\ Len(arguments) < MaxArgs
    /\ arguments' = Append(arguments, <<arg_type, value>>)
    /\ UNCHANGED <<inputs, outputs, command, runResult>>

\* FFmpeg.output
output(filepath) ==
    /\ Len(outputs) < MaxOutputs
    /\ outputs' = Append(outputs, filepath)
    /\ UNCHANGED <<inputs, arguments, command, runResult>>

\* for n in self.inputs: command.append('-i'); command.append(n)
RECURSIVE AppendInputs(_, _)
AppendInputs(cmd, ins) ==
    IF ins = <<>> THEN cmd
    ELSE AppendInputs(Append(Append(cmd, "-i"), Head(ins)), Tail(ins))

\* for a in self.arguments: command.append(a[0]); command.append(a[1])
RECURSIVE AppendArguments(_, _)
AppendArguments(cmd, args) ==
    IF args = <<>> THEN cmd
    ELSE AppendArguments(Append(Append(cmd, Head(args)[1]), Head(args)[2]), Tail(args))

\* for o in self.outputs: command.append(o)
RECURSIVE AppendOutputs(_, _)
AppendOutputs(cmd, outs) ==
    IF outs = <<>> THEN cmd
    ELSE AppendOutputs(Append(cmd, Head(outs)), Tail(outs))

\* A run() that appends the outputs before the arguments.
BuildCommandOutputsFirst(ins, args, outs) ==
    AppendArguments(AppendOutputs(AppendInputs(<<exe>>, ins), outs), args)

\* The command list run() builds.
BuildCommand(ins, args, outs) ==
    AppendOutputs(AppendArguments(AppendInputs(<<exe>>, ins), args), outs)

\* How subprocess.run(command, capture_output=True, text=True, check=True)
\* can end for the caller of run(): a None in the list is a TypeError, a
\* missing executable a FileNotFoundError, a nonzero exit status a
\* CalledProcessError, and exit status zero returns a CompletedProcess.
RunResults(cmd) ==
    IF \E i \in 1..Len(cmd) : cmd[i] = None
    THEN {"TypeError"}
    ELSE {"CompletedProcess", "CalledProcessError", "FileNotFoundError"}

\* FFmpeg.run
run ==
    /\ command' = BuildCommand(inputs, arguments, outputs)
    /\ runResult' \in RunResults(command')
    /\ UNCHANGED <<inputs, arguments, outputs>>


\* ------------------------------------------------------ main.py: the data

\* A Python dict, in insertion order, as a sequence of <<key, value>>.
\* d[key] = value: an existing key keeps its place, a new key goes last.
dict_set(d, key, value) ==
    IF \E i \in 1..Len(d) : d[i][1] = key
    THEN [i \in 1..Len(d) |-> IF d[i][1] = key THEN <<key, value>> ELSE d[i]]
    ELSE Append(d, <<key, value>>)

\* FFmpegConfig.__init__
FFmpegConfig ==
    [input |-> EmptyPath, globals |-> <<>>, output_options |-> <<>>, output |-> EmptyPath]

\* FFmpegConfig.is_valid
is_valid(conf) ==
    ~ (conf.input.suffix = "" \/ conf.output.suffix = "")

\* Preset.cli_args of the presets of ProtoframeWindow.presets, by index.
cli_args(index) ==
    CASE index = 0 -> <<>>
      [] index = 1 -> << <<"-c", "copy">> >>
      [] index = 2 -> << <<"-vf", "crop=">> >>
      [] index = 3 -> << <<"-vf", "scale=">> >>
      [] index = 4 -> << <<"-c", "copy">>, <<"-an", None>> >>
      [] index = 5 -> << <<"-crf", "50">>, <<"-b:a", "32k">> >>
      [] index = 6 -> << <<"-vf", "reverse">>, <<"-af", "areverse">> >>
      [] index = 7 -> << <<"-vf", "setpts=0.5*PTS">>, <<"-af", "atempo=2.0">> >>
      [] OTHER -> << <<"-vf", "split[s0][s1];[s0]palettegen[p];[s1][p]paletteuse">>, <<"loop", "0">> >>

\* ---------------------------------- the window's FFmpeg object (from the spec)

\* A new FFmpeg object: empty lists, both run flags clear (Idle).
NewFFmpeg ==
    [_input_files |-> <<>>, _output_files |-> <<>>, _global_options |-> <<>>,
     _executed |-> FALSE, _terminated |-> FALSE]

\* The Supervisor state the two run flags stand for (spec section 9).
State(f) ==
    IF ~ f._executed THEN "Idle"
    ELSE IF f._terminated THEN "Terminating" ELSE "Running"

\* ffmpeg_obj.input(url): append an input locator.
ffmpeg_input(f, url) ==
    [f EXCEPT !._input_files = Append(@, url)]

\* ffmpeg_obj.option(key, value): set a global option.
ffmpeg_option(f, key, value) ==
    [f EXCEPT !._global_options = dict_set(@, key, value)]

\* ffmpeg_obj.output(url, options): append an output with its options.
ffmpeg_output(f, url, options) ==
    [f EXCEPT !._output_files = Append(@, [url |-> url, options |-> options])]

\* Name then value of each option; no value token for an option without value.
RECURSIVE OptionTokens(_)
OptionTokens(options) ==
    IF options = <<>> THEN <<>>
    ELSE (IF Head(options)[2] = None
          THEN <<Head(options)[1]>>
          ELSE <<Head(options)[1], Head(options)[2]>>) \o OptionTokens(Tail(options))

RECURSIVE InputTokens(_)
InputTokens(ins) ==
    IF ins = <<>> THEN <<>> ELSE <<"-i", Head(ins)>> \o InputTokens(Tail(ins))

RECURSIVE OutputTokens(_)
OutputTokens(outs) ==
    IF outs = <<>> THEN <<>>
    ELSE OptionTokens(Head(outs).options) \o <<Head(outs).url>> \o OutputTokens(Tail(outs))

\* toArgv of spec section 4.1.
toArgv(f) ==
    InputTokens(f._input_files) \o OptionTokens(f._global_options) \o OutputTokens(f._output_files)

\* parseLine of spec section 4.2, as far as the events need it: whether a
\* line has the key=value shape of a progress update.
Structured(line) == line = "frame=1"

\* ----------------------------------------- main.py: FFmpegConfig to FFmpeg

\* for glop in self.globals: ffmpeg_obj.option(glop, self.globals[glop])
RECURSIVE GiveGlobals(_, _)
GiveGlobals(f, globals) ==
    IF globals = <<>> THEN f
    ELSE GiveGlobals(ffmpeg_option(f, Head(globals)[1], Head(globals)[2]), Tail(globals))

\* A give_config_to_ffmpeg without the three clear() calls.
give_config_without_clear(conf, ffmpeg_obj) ==
    ffmpeg_output(GiveGlobals(ffmpeg_input(ffmpeg_obj, Str(conf.input)), conf.globals),
                  Str(conf.output), conf.output_options)

\* FFmpegConfig.give_config_to_ffmpeg
give_config_to_ffmpeg(conf, ffmpeg_obj) ==
    LET cleared == [ffmpeg_obj EXCEPT !._input_files = <<>>,
                                      !._output_files = <<>>,
                                      !._global_options = <<>>]
        withInput == ffmpeg_input(cleared, Str(conf.input))
        withGlobals == GiveGlobals(withInput, conf.globals)
    IN  ffmpeg_output(withGlobals, Str(conf.output), conf.output_options)


\* --------------------------------------- main.py: the handlers of the events

\* What the handlers of an event act on: the FFmpeg object, the button, the
\* console, and the history of published events.
Window ==
    [ffmpeg |-> ffmpeg, in_progress |-> in_progress, console |-> console, log |-> log,
     manual_reset |-> manual_reset]

\* ProtoframeWindow.reset_ffmpeg (with FFmpegGoStopButton.set_in_progress_state).
\* The history manual_reset records that a flag was still set when it ran.
reset_ffmpeg(w) ==
    [w EXCEPT !.in_progress = FALSE,
              !.ffmpeg._executed = FALSE,
              !.ffmpeg._terminated = FALSE,
              !.manual_reset = @ \/ w.ffmpeg._executed \/ w.ffmpeg._terminated]

\* FFmpegConsoleDisplay.add_line
add_line(w, text) ==
    [w EXCEPT !.console = Append(@, text)]

\* The text each console handler of init_ui adds for its event.
ConsoleText(event, p) ==
    CASE event = "start" -> "Start: " \o p
      [] event = "stderr" -> "Stderr: " \o p
      [] event = "progress" -> "Progress: " \o p
      [] event = "error" -> "Error: " \o p
      [] event = "completed" -> "Completed"
      [] OTHER -> "Terminated"

\* A registration that also resets on 'start'.
TriggersResetOnStart(event) ==
    IF event \in {"error", "completed", "terminated", "start"}
    THEN <<"reset_ffmpeg", "add_line">>
    ELSE <<"add_line">>

\* A registration that also resets on 'stderr'.
TriggersResetOnStderr(event) ==
    IF event \in {"error", "completed", "terminated", "stderr"}
    THEN <<"reset_ffmpeg", "add_line">>
    ELSE <<"add_line">>

\* init_ui, "Triggers": the handlers registered for an event, in the order
\* of their registration.
Triggers(event) ==
    IF event \in {"error", "completed", "terminated"}
    THEN <<"reset_ffmpeg", "add_line">>
    ELSE <<"add_line">>

\* A delivery that stops after the first handler of the event.
CallFirstHandlerOnly(w, handlers, event, p) ==
    IF handlers = <<>> THEN w
    ELSE IF Head(handlers) = "reset_ffmpeg"
         THEN reset_ffmpeg(w)
         ELSE add_line(w, ConsoleText(event, p))

\* Delivery of one event to its handlers, one after the other, in the order
\* of their registration (spec section 4.3).
RECURSIVE CallHandlers(_, _, _, _)
CallHandlers(w, handlers, event, p) ==
    IF handlers = <<>> THEN w
    ELSE CallHandlers(IF Head(handlers) = "reset_ffmpeg"
                      THEN reset_ffmpeg(w)
                      ELSE add_line(w, ConsoleText(event, p)),
                      Tail(handlers), event, p)

\* Publication of one event (spec section 4.3): the event joins the
\* history, then every registered handler runs, in registration order,
\* before publication returns.
publish(w, event, p) ==
    CallHandlers([w EXCEPT !.log = Append(@, [event |-> event, p |-> p])],
                 Triggers(event), event, p)

\* The window's part of the state after the handlers have run.
SetWindow(w) ==
    /\ ffmpeg' = w.ffmpeg
    /\ in_progress' = w.in_progress
    /\ console' = w.console
    /\ log' = w.log
    /\ manual_reset' = w.manual_reset

\* str(argv), the payload of 'start'.
RECURSIVE ArgvText(_)
ArgvText(a) ==
    IF a = <<>> THEN ""
    ELSE IF Len(a) = 1 THEN Head(a) ELSE Head(a) \o " " \o ArgvText(Tail(a))

\* --------------------------------------------- the Supervisor (from the spec)

\* execute of spec section 4.4, called with the FFmpeg object f as
\* give_config_to_ffmpeg left it.  Not Idle: it fails with AlreadyRunning.
\* Idle: the configuration is linearised and the tool spawned; a spawned
\* process makes the run Running and 'start' is published, a spawn failure
\* is published as 'error' without passing through Running.
execute(f) ==
    IF State(f) # "Idle"
    THEN /\ ffmpeg' = f
         /\ UNCHANGED <<in_progress, console, manual_reset, runVars>>
    ELSE /\ runs < MaxRuns
         /\ \E spawned \in BOOLEAN :
              LET w == [Window EXCEPT !.ffmpeg = IF spawned
                                                 THEN [f EXCEPT !._executed = TRUE]
                                                 ELSE f,
                                      !.console = <<>>,
                                      !.log = <<>>,
                                      !.manual_reset = FALSE]
              IN  /\ SetWindow(IF spawned
                               THEN publish(w, "start", ArgvText(toArgv(f)))
                               ELSE publish(w, "error", "spawn error"))
                  /\ proc' = IF spawned THEN "running" ELSE proc
                  /\ argv' = IF spawned THEN toArgv(f) ELSE argv
         /\ runs' = runs + 1
         /\ pipe' = <<>>
         /\ emitted' = <<>>
         /\ signals' = 0
         /\ terminated_from' = ""
         /\ returncode' = NoReturncode

\* A terminate that signals the process again when already Terminating.
terminate_signals_again(f) ==
    CASE State(f) = "Idle" -> [ffmpeg |-> f, signal |-> 0, error |-> "NotRunning"]
      [] OTHER -> [ffmpeg |-> [f EXCEPT !._terminated = TRUE], signal |-> 1, error |-> ""]

\* A terminate that does not look at the state it is called in.
terminate_unchecked(f) ==
    [ffmpeg |-> [f EXCEPT !._executed = TRUE, !._terminated = TRUE],
     signal |-> 1, error |-> ""]

\* terminate of spec section 4.4 on the FFmpeg object f: the object after
\* the call, the number of signals sent, and the error raised ("" for none).
terminate(f) ==
    CASE State(f) = "Idle" -> [ffmpeg |-> f, signal |-> 0, error |-> "NotRunning"]
      [] State(f) = "Running" ->
            [ffmpeg |-> [f EXCEPT !._terminated = TRUE], signal |-> 1, error |-> ""]
      [] OTHER -> [ffmpeg |-> f, signal |-> 0, error |-> ""]

\* The terminal event of a run whose process has exited (spec section 4.4).
TerminalEvent(f, code) ==
    IF State(f) = "Terminating" THEN "terminated"
    ELSE IF code = 0 THEN "completed" ELSE "error"

\* The child process writes a line to its diagnostic stream.
ProcEmit(line) ==
    /\ proc = "running"
    /\ Len(emitted) < MaxLines
    /\ pipe' = Append(pipe, line)
    /\ emitted' = Append(emitted, line)
    /\ UNCHANGED <<ffmpegVars, windowVars, proc, returncode, signals, terminated_from, argv, runs, log>>

\* The child process exits, by itself or on the termination signal.
ProcExit(code) ==
    /\ proc = "running"
    /\ proc' = "exited"
    /\ returncode' = code
    /\ UNCHANGED <<ffmpegVars, windowVars, pipe, emitted, signals, terminated_from, argv, runs, log>>

\* The draining task reads the next line: 'stderr' is published, and
\* 'progress' right after it for a structured line.
drain ==
    /\ proc # "none"
    /\ pipe # <<>>
    /\ LET line == Head(pipe)
           w == publish(Window, "stderr", line)
       IN  SetWindow(IF Structured(line) THEN publish(w, "progress", line) ELSE w)
    /\ pipe' = Tail(pipe)
    /\ UNCHANGED <<ffmpegVars, ff_conf, available, currentIndex, pendingExec,
                   proc, returncode, emitted, signals, terminated_from, argv, runs>>

\* A handling of the exit that does not wait for the stream to be drained.
on_exit_undrained ==
    /\ proc = "exited"
    /\ LET event == TerminalEvent(ffmpeg, returncode)
       IN  SetWindow(publish(Window, event,
                             IF event = "error" THEN "exit status" ELSE ""))
    /\ proc' = "none"
    /\ UNCHANGED <<ffmpegVars, ff_conf, available, currentIndex, pendingExec,
                   returncode, pipe, emitted, signals, terminated_from, argv, runs>>

\* The process has exited and its diagnostic stream is drained: the
\* terminal event is published.  The run flags stay as they are; it is the
\* handlers of the event that clear them (spec section 4.4, rationale).
on_exit ==
    /\ proc = "exited"
    /\ pipe = <<>>
    /\ LET event == TerminalEvent(ffmpeg, returncode)
       IN  SetWindow(publish(Window, event,
                             IF event = "error" THEN "exit status" ELSE ""))
    /\ proc' = "none"
    /\ UNCHANGED <<ffmpegVars, ff_conf, available, currentIndex, pendingExec,
                   returncode, pipe, emitted, signals, terminated_from, argv, runs>>

\* --------------------------------------------------- main.py: the operations

\* ProtoframeWindow.on_output_edit (with FFmpegGoStopButton.set_availability)
\* on the pair of the configuration and the button's availability.
on_output_edit(c, file_name) ==
    LET conf == [c.ff_conf EXCEPT !.output = file_name]
    IN  [ff_conf |-> conf, available |-> is_valid(conf)]

\* ProtoframeWindow.on_input_edit
on_input_edit(c, new_path) ==
    LET conf == [c.ff_conf EXCEPT !.input = new_path]
        out_path == Path(new_path.stem \o "_edit", new_path.suffix)
        edited == on_output_edit([c EXCEPT !.ff_conf = conf], out_path)
    IN  [edited EXCEPT !.available = is_valid(edited.ff_conf)]

\* An input edit that also gives the edited configuration to the FFmpeg object.
InputEditGivesConfig(new_path) ==
    /\ LET c == on_input_edit([ff_conf |-> ff_conf, available |-> available], new_path)
       IN  /\ ff_conf' = c.ff_conf
           /\ available' = c.available
           /\ ffmpeg' = give_config_to_ffmpeg(c.ff_conf, ffmpeg)
    /\ UNCHANGED <<ffmpegVars, in_progress, currentIndex, console, pendingExec,
                   manual_reset, runVars>>

\* The user picks or drops an input file (DragAndDropFilePicker).
InputEdit(new_path) ==
    /\ LET c == on_input_edit([ff_conf |-> ff_conf, available |-> available], new_path)
       IN  /\ ff_conf' = c.ff_conf
           /\ available' = c.available
    /\ UNCHANGED <<ffmpegVars, in_progress, currentIndex, console, pendingExec, ffmpeg,
                   manual_reset, runVars>>

\* The user edits the output name (SplitFileDisplay._on_edit).
OutputEdit(file_name) ==
    /\ LET c == on_output_edit([ff_conf |-> ff_conf, available |-> available], file_name)
       IN  /\ ff_conf' = c.ff_conf
           /\ available' = c.available
    /\ UNCHANGED <<ffmpegVars, in_progress, currentIndex, console, pendingExec, ffmpeg,
                   manual_reset, runVars>>

\* The user picks a preset in the dropdown (PresetDropdown.combobox).
PresetEdit(index) ==
    /\ index # currentIndex
    /\ currentIndex' = index
    /\ UNCHANGED <<ffmpegVars, ff_conf, in_progress, available, console, pendingExec, ffmpeg,
                   manual_reset, runVars>>

\* ProtoframeWindow._terminate_ffmpeg: terminate(), an exception only logged.
_terminate_ffmpeg(f) == terminate(f)

\* FFmpegGoStopButton.mouseReleaseEvent, with on_go_stop_button_click: a
\* click on GO schedules the coroutine _execute_ffmpeg (asyncSlot), a click
\* on STOP calls _terminate_ffmpeg; then the button flips.
mouseReleaseEvent ==
    /\ available
    /\ IF ~ in_progress
       THEN /\ pendingExec < MaxPending
            /\ pendingExec' = pendingExec + 1
            /\ UNCHANGED <<ffmpeg, signals, terminated_from>>
       ELSE LET t == _terminate_ffmpeg(ffmpeg)
            IN  /\ ffmpeg' = t.ffmpeg
                /\ signals' = signals + t.signal
                /\ terminated_from' = State(ffmpeg)
                /\ UNCHANGED pendingExec
    /\ in_progress' = ~ in_progress
    /\ UNCHANGED <<ffmpegVars, ff_conf, available, currentIndex, console, manual_reset,
                   proc, returncode, pipe, emitted, argv, runs, log>>

\* ProtoframeWindow._execute_ffmpeg, the coroutine body.  A current preset
\* with cli_args makes the body raise (p.user_input is no attribute of
\* PresetDropdown) before the configuration is given to the FFmpeg object.
_execute_ffmpeg ==
    /\ pendingExec > 0
    /\ pendingExec' = pendingExec - 1
    /\ LET conf == [ff_conf EXCEPT !.globals = dict_set(@, "-y", None),
                                   !.output_options = <<>>]
       IN  /\ ff_conf' = conf
           /\ IF cli_args(currentIndex) # <<>>
              THEN UNCHANGED <<ffmpeg, in_progress, console, manual_reset, runVars>>
              ELSE execute(give_config_to_ffmpeg(conf, ffmpeg))
    /\ UNCHANGED <<ffmpegVars, available, currentIndex>>

\* --------------------------------------------------------- specifications

\* main(): a new FFmpegConfig, a new FFmpeg object, the window as init_ui
\* leaves it, and no process.
WindowInit ==
    /\ ff_conf = FFmpegConfig
    /\ in_progress = FALSE
    /\ available = FALSE
    /\ currentIndex = 0
    /\ console = <<>>
    /\ pendingExec = 0
    /\ ffmpeg = NewFFmpeg
    /\ manual_reset = FALSE
    /\ proc = "none"
    /\ returncode = NoReturncode
    /\ pipe = <<>>
    /\ emitted = <<>>
    /\ signals = 0
    /\ terminated_from = ""
    /\ argv = <<>>
    /\ runs = 0
    /\ log = <<>>

Init == FFmpegInit /\ WindowInit

\* The window and the run.
Next ==
    \/ \E new_path \in InputPaths : InputEdit(new_path)
    \/ \E file_name \in OutputNames : OutputEdit(file_name)
    \/ \E index \in PresetIndexes : PresetEdit(index)
    \/ mouseReleaseEvent
    \/ _execute_ffmpeg
    \/ \E line \in Lines : ProcEmit(line)
    \/ \E code \in ExitCodes : ProcExit(code)
    \/ drain
    \/ on_exit

Spec == Init /\ [][Next]_vars

\* The process exits in the end, and the Supervisor's own tasks (the
\* scheduled coroutine, the draining task, the handling of the exit) run
\* when they can.
FairSpec ==
    /\ Spec
    /\ WF_vars(\E code \in ExitCodes : ProcExit(code))
    /\ WF_vars(drain)
    /\ WF_vars(on_exit)

\* The class FFmpeg of ffmpeg.py on its own.
NextFFmpeg ==
    \/ \E filepath \in FileNames : input(filepath) /\ UNCHANGED <<windowVars, runVars>>
    \/ \E arg_type \in ArgTypes, value \in ArgValues :
          arg(arg_type, value) /\ UNCHANGED <<windowVars, runVars>>
    \/ \E filepath \in FileNames : output(filepath) /\ UNCHANGED <<windowVars, runVars>>
    \/ run /\ UNCHANGED <<windowVars, runVars>>

SpecFFmpeg == Init /\ [][NextFFmpeg]_vars


\* ------------------------------------------------------------- properties

\* The terminal events: Completed, Failed, Terminated.
Terminal == {"completed", "error", "terminated"}

IsTerminal(e) == e.event \in Terminal

TerminalCount(l) == Cardinality({i \in 1..Len(l) : IsTerminal(l[i])})

\* The lines published as 'stderr', in the order of their publication.
RECURSIVE StderrLines(_)
StderrLines(l) ==
    IF l = <<>> THEN <<>>
    ELSE (IF Head(l).event = "stderr" THEN <<Head(l).p>> ELSE <<>>) \o StderrLines(Tail(l))

\* A run is in flight: Running or Terminating.
InFlight == State(ffmpeg) # "Idle"

\* cmd is: the executable; for each input in order the marker -i and the
\* input; for each argument in insertion order its name and its value; the
\* outputs in order, each with no options of its own before it.
Linearized(cmd, ins, args, outs) ==
    LET N == Len(ins)
        K == Len(args)
        M == Len(outs)
    IN  /\ Len(cmd) = 1 + 2 * N + 2 * K + M
        /\ cmd[1] = exe
        /\ \A i \in 1..N : cmd[2 * i] = "-i" /\ cmd[2 * i + 1] = ins[i]
        /\ \A j \in 1..K : /\ cmd[2 * N + 2 * j] = args[j][1]
                           /\ cmd[2 * N + 2 * j + 1] = args[j][2]
        /\ \A m \in 1..M : cmd[1 + 2 * N + 2 * K + m] = outs[m]

\* C1: the command run() builds holds, after the executable, the marker -i
\* and the locator of each of the N inputs in their order, then the
\* arguments (global options) in insertion order, then the M outputs in
\* their order; FFmpeg.output takes no options, so every output's group of
\* options is empty and the outputs follow one another.
C1_LinearizationOrder ==
    [][command' # command => Linearized(command', inputs, arguments, outputs)]_vars

\* C1: a command built from two inputs, two arguments and two outputs.
C1_Witness ==
    /\ Len(inputs) = 2 /\ Len(arguments) = 2 /\ Len(outputs) = 2
    /\ inputs[1] # inputs[2] /\ outputs[1] # outputs[2]
    /\ Len(command) = 11

\* C2: an option whose value is None puts its name alone into the command:
\* no token of the command is the None placeholder.
C2_NoValueOptionEmitsOnlyItsName ==
    \A i \in 1..Len(command) : command[i] # None

\* C3: every run publishes exactly one terminal event and it is the last
\* event of the run: the history of a run holds at most one terminal event,
\* nothing after it, none while the process is there, exactly one once the
\* run is over; and the next run's events begin only after it.
C3_Run ==
    /\ TerminalCount(log) <= 1
    /\ \A i \in 1..Len(log) : IsTerminal(log[i]) => i = Len(log)
    /\ proc # "none" => TerminalCount(log) = 0
    /\ (runs > 0 /\ proc = "none") => TerminalCount(log) = 1

\* C3: each run publishes exactly one terminal event, as its last event
\* (C3_Run in every state), and a new run starts only after the terminal
\* event of the run before it.
C3_OneTerminalEventLast ==
    /\ []C3_Run
    /\ [][runs' # runs => (log = <<>> \/ IsTerminal(log[Len(log)]))]_vars

\* C3: a second run that published Started, a line and a terminal event.
C3_Witness ==
    /\ runs = 2 /\ proc = "none"
    /\ Len(log) >= 3 /\ IsTerminal(log[Len(log)])

\* C4: after a terminal event the Supervisor is Idle by itself: no handler
\* of a collaborator ever has to clear a run flag the Supervisor left set.
C4_IdleWithoutReset ==
    ~ manual_reset

\* C5: an execute requested while a run is in flight fails and leaves that
\* run alone: the FFmpeg object's configuration, the argument vector and
\* the events published are what they were.
C5_RejectedExecuteLeavesRun ==
    [][(InFlight /\ pendingExec' < pendingExec)
         => (ffmpeg' = ffmpeg /\ argv' = argv /\ log' = log)]_vars

\* C6: once terminate() has signalled the process of a run, the terminal
\* event of that run is Terminated, whatever the exit code, and it comes.
C6_TerminateYieldsTerminated ==
    /\ [][(signals > 0 /\ proc # "none" /\ proc' = "none" /\ runs' = runs)
            => log'[Len(log')].event = "terminated"]_vars
    /\ (signals > 0) ~> (log # <<>> /\ log[Len(log)].event = "terminated")

\* C6: a cancelled run whose process exited with code 0 published Terminated.
C6_Witness ==
    /\ signals > 0 /\ returncode = 0 /\ proc = "none"
    /\ log # <<>> /\ log[Len(log)].event = "terminated"

\* C7: no run is started for a configuration is_valid rejects at the moment
\* execute is called.
C7_InvalidNeverStarted ==
    [][runs' = runs + 1 => is_valid(ff_conf)]_vars

\* C8: run() reports no outcome of the run to its caller, neither by its
\* return value nor by an exception.
C8_OutcomeNeverToCaller ==
    runResult \notin {"CompletedProcess", "CalledProcessError", "FileNotFoundError"}

\* C9: while a run is in flight, an edit of the configuration (a step that
\* changes ff_conf and is no execute request) leaves the FFmpeg object's
\* inputs, options and outputs as they are, and the argument vector of the
\* run changes in no step.
C9_EditsLeaveInFlightRun ==
    /\ [][(InFlight /\ ff_conf' # ff_conf /\ pendingExec' = pendingExec)
            => ffmpeg' = ffmpeg]_vars
    /\ [][(proc # "none" /\ runs' = runs) => argv' = argv]_vars

\* C9: a run in flight whose configuration was edited after it started.
C9_Witness ==
    /\ InFlight /\ proc = "running"
    /\ ffmpeg._output_files # <<>>
    /\ Str(ff_conf.output) # ffmpeg._output_files[1].url
    /\ toArgv(ffmpeg) = argv

ConsoleFollowsLog ==
    /\ Len(console) = Len(log)
    /\ \A i \in 1..Len(log) : console[i] = ConsoleText(log[i].event, log[i].p)

\* C11: every published event is delivered to every handler registered for
\* it, in publication order and without loss, and its delivery is over
\* before the next event is delivered: the console, whose handlers are
\* registered for all six events, holds one line per published event in
\* the order of publication, and reset_ffmpeg, registered for the terminal
\* events, has run when a terminal event has been published.
C11_DeliveryInPublicationOrder ==
    /\ []ConsoleFollowsLog
    /\ [][((log' # log \/ runs' # runs) /\ log' # <<>> /\ IsTerminal(log'[Len(log')]))
            => (State(ffmpeg') = "Idle" /\ ~ in_progress')]_vars

\* C11: a run whose start, line, progress update and completion all reached
\* the console, and whose completion reached reset_ffmpeg.
C11_Witness ==
    /\ console = <<"Start: -i a.mp4 -y a_edit.mp4", "Stderr: frame=1",
                   "Progress: frame=1", "Completed">>
    /\ manual_reset
    /\ State(ffmpeg) = "Idle"

\* A step that is a click on STOP: the button leaves in_progress and no
\* event is published (the other way out of in_progress is reset_ffmpeg,
\* run for a published event).
StopClick ==
    /\ in_progress /\ ~ in_progress'
    /\ log' = log /\ runs' = runs

\* C12: terminate() called while the Supervisor is Terminating is a no-op:
\* the FFmpeg object stays as it is (Terminating) and no signal is sent, so
\* the process of a run is signalled at most once, and exactly once when
\* terminate() was called during the run.
C12_TerminateIdempotent ==
    /\ [](/\ signals <= 1
          /\ terminated_from \in {"Running", "Terminating"} => signals = 1)
    /\ [][(StopClick /\ State(ffmpeg) = "Terminating")
            => (/\ ffmpeg' = ffmpeg
                /\ signals' = signals
                /\ _terminate_ffmpeg(ffmpeg).error = "")]_vars

\* C12: terminate() was called again in a run that is Terminating, its
\* process still running, and the process has been signalled once.
C12_Witness ==
    /\ terminated_from = "Terminating"
    /\ State(ffmpeg) = "Terminating"
    /\ proc = "running"
    /\ signals = 1

\* C13: terminate() called while the Supervisor is Idle fails with
\* NotRunning and changes nothing: the FFmpeg object stays Idle, no signal
\* is sent, no event is published and nothing reaches the console.
C13_TerminateWhenIdleFails ==
    [][(StopClick /\ State(ffmpeg) = "Idle")
        => (/\ _terminate_ffmpeg(ffmpeg).error = "NotRunning"
            /\ ffmpeg' = ffmpeg
            /\ signals' = signals
            /\ console' = console
            /\ proc' = proc)]_vars

\* C13: terminate() was called with no run in flight, the button showing
\* STOP before any run had started, and nothing came of it.
C13_Witness ==
    /\ terminated_from = "Idle"
    /\ State(ffmpeg) = "Idle"
    /\ runs = 0
    /\ signals = 0
    /\ log = <<>>
    /\ ~ in_progress

\* C14: when no scheduled _execute_ffmpeg is waiting to run, the button is
\* in_progress exactly when a run is in flight (Running or Terminating).
C14_ButtonFollowsRun ==
    pendingExec = 0 => (in_progress <=> InFlight)

\* The FFmpeg object f holds the configuration conf and nothing else: one
\* input, the global options in insertion order, one output with its options.
HoldsConfig(f, conf) ==
    /\ f._input_files = <<Str(conf.input)>>
    /\ f._global_options = conf.globals
    /\ f._output_files = <<[url |-> Str(conf.output), options |-> conf.output_options]>>

\* C15: give_config_to_ffmpeg makes the configuration of the FFmpeg object
\* a function of the FFmpegConfig alone: whatever the object held, after
\* the call it holds one input, the config's global options in insertion
\* order and one output with the config's output options; a second call
\* changes nothing; and the object _execute_ffmpeg has given the
\* configuration to holds exactly that, so that inputs and outputs never
\* accumulate from one execution to the next.
C15_GiveConfigFunctionOfConfig ==
    /\ [](LET once == give_config_to_ffmpeg(ff_conf, ffmpeg)
          IN  /\ HoldsConfig(once, ff_conf)
              /\ give_config_to_ffmpeg(ff_conf, once) = once
              /\ once._executed = ffmpeg._executed
              /\ once._terminated = ffmpeg._terminated
              /\ Len(ffmpeg._input_files) <= 1
              /\ Len(ffmpeg._output_files) <= 1)
    /\ [][(pendingExec' < pendingExec /\ cli_args(currentIndex) = <<>>)
            => HoldsConfig(ffmpeg', ff_conf')]_vars

\* C15: the configuration was given twice, the second time while the run
\* started with the first was still there: the object holds the second
\* configuration only, one input and one output.
C15_Witness ==
    /\ proc # "none"
    /\ argv = <<"-i", "a.mp4", "-y", "a_edit.mp4">>
    /\ toArgv(ffmpeg) = <<"-i", "a.mp4", "-y", "o.gif">>
    /\ pendingExec = 0

=============================================================================
